---- MODULE Spec2Model ----
(***************************************************************************)
(* Model of src/sample_api.py: the fetch -> save -> upload batch job.      *)
(*                                                                         *)
(* The module has four callable functions: pull_data_from_api,             *)
(* save_data_to_csv, upload_to_snowflake and main.  A behaviour is one     *)
(* invocation of one of them (variable entry), with the outcomes of the    *)
(* outside world (HTTP response, file system, environment variables,       *)
(* warehouse driver) chosen nondeterministically at each step.             *)
(*                                                                         *)
(* Library behaviour the code relies on, modelled as the libraries define  *)
(* it: requests' raise_for_status raises only for 400 <= status < 600;     *)
(* Response.json raises requests.exceptions.JSONDecodeError, a subclass of *)
(* RequestException; pandas.DataFrame(None), DataFrame([]) and             *)
(* DataFrame({}) build an empty frame, DataFrame of a flat object of       *)
(* scalars raises ValueError; calling a two-parameter function with three  *)
(* positional arguments raises TypeError before its body runs.             *)
(***************************************************************************)
EXTENDS Integers, Sequences, FiniteSets, TLC

VARIABLES entry, pc, data, df, calls, file, fsWrites, conns, log, outcome

vars == <<entry, pc, data, df, calls, file, fsWrites, conns, log, outcome>>

\* Largest number of records (or keys) in a response body.
MaxRecords == 2

(***************************************************************************)
(* Values                                                                  *)
(***************************************************************************)
\* Python values that flow through the pipeline, as [kind, n]:
\*   none       None
\*   records    a list of n flat dicts (n = 0 is [])
\*   object     a dict of n scalar-valued keys (n = 0 is {})
\*   dataframe  a pandas DataFrame of n rows
\*   str        a string (bucket name, file path, blob name)
NoneVal == [kind |-> "none", n |-> 0]

Records(k) == [kind |-> "records", n |-> k]

Object(k) == [kind |-> "object", n |-> k]

DataFrameOf(k) == [kind |-> "dataframe", n |-> k]

StrVal == [kind |-> "str", n |-> 0]

\* JSON documents an API can answer with: null, an array of records, or a
\* flat object.
Payloads ==
    {NoneVal} \cup {Records(k) : k \in 0..MaxRecords}
              \cup {Object(k) : k \in 0..1}

\* A response body: a JSON document, or text that is not JSON.
Malformed == [kind |-> "malformed", n |-> 0]

Bodies == Payloads \cup {Malformed}

\* HTTP status codes, one per class the code can tell apart, plus 0 for a
\* request that got no response (timeout, DNS, connection refused).
Statuses == {200, 300, 404, 500}

NoResponse == [status |-> 0, body |-> Malformed]

HttpOutcomes == {NoResponse} \cup [status : Statuses, body : Bodies]

\* File system outcomes of opening and writing the CSV.
FsOutcomes == {"ok", "denied", "diskfull"}

\* The file at api_data.csv.
Absent == [state |-> "absent", rows |-> 0]

OldFile == [state |-> "old", rows |-> 1]

\* GCS_BUCKET_NAME: unset, set to "", or set to a name.
BucketEnv == {"unset", "empty", "name"}

(***************************************************************************)
(* pull_data_from_api                                                      *)
(***************************************************************************)
\* response.raise_for_status(): HTTPError for 4xx and 5xx only.
RaiseForStatus(status) == 400 <= status /\ status < 600

\* One call record: the function, the line of main that called it (0 when
\* called on its own), its first argument and argument count, what it
\* returned, the HTTP status it saw, whether it got through without an error
\* (ok), and the exception that left it ("" when it returned).
Call(fn, line, arg, nargs, ret, status, ok, raised) ==
    [fn |-> fn, line |-> line, arg |-> arg, nargs |-> nargs, ret |-> ret,
     status |-> status, ok |-> ok, raised |-> raised]

\* pull_data_from_api(api_url, params) against the HTTP outcome h:
\* the returned value and the log lines.
pull_data_from_api(h) ==
    IF h.status = 0
      THEN [ret |-> NoneVal, ok |-> FALSE, log |-> <<"ERROR pull">>]
    ELSE IF RaiseForStatus(h.status)
      THEN [ret |-> NoneVal, ok |-> FALSE, log |-> <<"ERROR pull">>]
    ELSE IF h.body = Malformed
      THEN [ret |-> NoneVal, ok |-> FALSE,
            log |-> <<"INFO pulled", "ERROR pull">>]
    ELSE [ret |-> h.body, ok |-> TRUE, log |-> <<"INFO pulled">>]

(***************************************************************************)
(* save_data_to_csv                                                        *)
(***************************************************************************)
\* pd.DataFrame(data): the frame, or ok = FALSE when the constructor raises.
DataFrame(d) ==
    IF d.kind = "object" /\ d.n > 0
      THEN [ok |-> FALSE, rows |-> 0]
      ELSE [ok |-> TRUE, rows |-> d.n]

\* df.to_csv(file_path, index=False) under file system outcome fs.
to_csv(rows, f, fs) ==
    CASE fs = "ok"       -> [ok |-> TRUE, file |-> [state |-> "csv", rows |-> rows],
                             wrote |-> 1]
      [] fs = "diskfull" -> [ok |-> FALSE, file |-> [state |-> "partial", rows |-> 0],
                             wrote |-> 1]
      [] OTHER           -> [ok |-> FALSE, file |-> f, wrote |-> 0]

\* What save_data_to_csv returns after a successful write: the function has
\* no return statement on that path.
SaveReturn(rows) == NoneVal

\* save_data_to_csv(data, file_path): return value, file, number of file
\* mutations and log lines.
save_data_to_csv(d, f, fs) ==
    LET frame == DataFrame(d) IN
    IF ~frame.ok
      THEN [ret |-> NoneVal, ok |-> FALSE, file |-> f, wrote |-> 0,
            log |-> <<"ERROR save">>]
      ELSE LET w == to_csv(frame.rows, f, fs) IN
           IF w.ok
             THEN [ret |-> SaveReturn(frame.rows), ok |-> TRUE, file |-> w.file,
                   wrote |-> w.wrote, log |-> <<"INFO saved">>]
             ELSE [ret |-> NoneVal, ok |-> FALSE, file |-> w.file,
                   wrote |-> w.wrote, log |-> <<"ERROR save">>]

(***************************************************************************)
(* upload_to_snowflake                                                     *)
(***************************************************************************)
\* The driver's answers during one call: connect(), conn.cursor(),
\* cursor.close(), conn.close(); TRUE = returns, FALSE = raises.
DriverOutcomes ==
    [connect : BOOLEAN, cursor : BOOLEAN, curClose : BOOLEAN, connClose : BOOLEAN]

\* Number of conn.close() calls made by upload_to_snowflake once the
\* connection is open: conn.close() is the last statement of the try block.
CloseCalls(d) == IF d.cursor /\ d.curClose THEN 1 ELSE 0

\* upload_to_snowflake(df, table_name): connections opened, close calls
\* made, log lines.
upload_to_snowflake(d) ==
    IF ~d.connect
      THEN [opened |-> 0, closeCalls |-> 0, ok |-> FALSE,
            log |-> <<"ERROR upload">>]
    ELSE IF ~d.cursor
      THEN [opened |-> 1, closeCalls |-> CloseCalls(d), ok |-> FALSE,
            log |-> <<"ERROR upload">>]
    ELSE IF ~d.curClose
      THEN [opened |-> 1, closeCalls |-> CloseCalls(d), ok |-> FALSE,
            log |-> <<"INFO uploaded", "ERROR upload">>]
    ELSE IF ~d.connClose
      THEN [opened |-> 1, closeCalls |-> CloseCalls(d), ok |-> FALSE,
            log |-> <<"INFO uploaded", "ERROR upload">>]
    ELSE [opened |-> 1, closeCalls |-> CloseCalls(d), ok |-> TRUE,
          log |-> <<"INFO uploaded">>]

\* Parameters of upload_to_snowflake.
UploadParams == <<"df", "table_name">>

\* A call binds when it passes as many positional arguments as there are
\* parameters; otherwise Python raises TypeError at the call.
Binds(nargs) == nargs = Len(UploadParams)

\* `if data:` written as `if data != []:`.
TruthyAsNotEmptyList(d) == d # Records(0)

\* `if data:` written as `if data is not None:`.
TruthyAsNotNone(d) == d.kind # "none"

\* Python truth value of data, as tested by `if data:`.
Truthy(d) == d.kind # "none" /\ d.n > 0

\* `df is not None`.
IsNotNone(v) == v.kind # "none"

(***************************************************************************)
(* State                                                                   *)
(***************************************************************************)
Init ==
    /\ entry = "none"
    /\ pc = "idle"
    /\ data = NoneVal
    /\ df = NoneVal
    /\ calls = <<>>
    /\ file \in {Absent, OldFile}
    /\ fsWrites = 0
    /\ conns = [opened |-> 0, closeCalls |-> 0]
    /\ log = <<>>
    /\ outcome = "Running"

(***************************************************************************)
(* The three components called on their own                                *)
(***************************************************************************)
CallPull ==
    /\ pc = "idle"
    /\ \E h \in HttpOutcomes :
         LET r == pull_data_from_api(h) IN
         /\ calls' = Append(calls, Call("pull_data_from_api", 0, StrVal, 2,
                                        r.ret, h.status, r.ok, ""))
         /\ log' = log \o r.log
    /\ entry' = "pull_data_from_api"
    /\ pc' = "done"
    /\ outcome' = "Returned"
    /\ UNCHANGED <<data, df, file, fsWrites, conns>>

CallSave ==
    /\ pc = "idle"
    /\ \E d \in Payloads, fs \in FsOutcomes :
         LET r == save_data_to_csv(d, file, fs) IN
         /\ calls' = Append(calls, Call("save_data_to_csv", 0, d, 2, r.ret, 0, r.ok, ""))
         /\ file' = r.file
         /\ fsWrites' = fsWrites + r.wrote
         /\ log' = log \o r.log
    /\ entry' = "save_data_to_csv"
    /\ pc' = "done"
    /\ outcome' = "Returned"
    /\ UNCHANGED <<data, df, conns>>

CallUpload ==
    /\ pc = "idle"
    /\ \E k \in 0..MaxRecords, d \in DriverOutcomes :
         LET r == upload_to_snowflake(d) IN
         /\ calls' = Append(calls, Call("upload_to_snowflake", 0, DataFrameOf(k),
                                        2, NoneVal, 0, r.ok, ""))
         /\ conns' = [opened |-> conns.opened + r.opened,
                      closeCalls |-> conns.closeCalls + r.closeCalls]
         /\ log' = log \o r.log
    /\ entry' = "upload_to_snowflake"
    /\ pc' = "done"
    /\ outcome' = "Returned"
    /\ UNCHANGED <<data, df, file, fsWrites>>

(***************************************************************************)
(* main                                                                    *)
(***************************************************************************)
\* main() is entered.
MainStart ==
    /\ pc = "idle"
    /\ entry' = "main"
    /\ pc' = "L86"
    /\ UNCHANGED <<data, df, calls, file, fsWrites, conns, log, outcome>>

\* Line 86: data = pull_data_from_api(api_url, params).
MainL86 ==
    /\ pc = "L86"
    /\ \E h \in HttpOutcomes :
         LET r == pull_data_from_api(h) IN
         /\ calls' = Append(calls, Call("pull_data_from_api", 86, StrVal, 2,
                                        r.ret, h.status, r.ok, ""))
         /\ data' = r.ret
         /\ log' = log \o r.log
    /\ pc' = "L88"
    /\ UNCHANGED <<entry, df, file, fsWrites, conns, outcome>>

\* Lines 88-101: save, upload when save returned a frame, or give up.
MainL88 ==
    /\ pc = "L88"
    /\ IF Truthy(data)
         THEN \E fs \in FsOutcomes, d \in DriverOutcomes :
                LET s == save_data_to_csv(data, file, fs)
                    u == upload_to_snowflake(d)
                    saved == Call("save_data_to_csv", 90, data, 2, s.ret, 0, s.ok, "")
                IN
                /\ df' = s.ret
                /\ file' = s.file
                /\ fsWrites' = fsWrites + s.wrote
                /\ IF IsNotNone(s.ret)
                     THEN /\ calls' = calls \o <<saved,
                                 Call("upload_to_snowflake", 94, s.ret, 2,
                                      NoneVal, 0, u.ok, "")>>
                          /\ conns' = [opened |-> conns.opened + u.opened,
                                       closeCalls |-> conns.closeCalls + u.closeCalls]
                          /\ log' = log \o s.log \o u.log
                     ELSE /\ calls' = Append(calls, saved)
                          /\ log' = log \o s.log
                          /\ UNCHANGED conns
                /\ pc' = "L104"
                /\ UNCHANGED outcome
         ELSE /\ log' = Append(log, "ERROR no data to process")
              /\ pc' = "done"
              /\ outcome' = "Failed"
              /\ UNCHANGED <<df, calls, file, fsWrites, conns>>
    /\ UNCHANGED <<entry, data>>

\* Line 104: data = pull_data_from_api(api_url, params), a second time.
MainL104 ==
    /\ pc = "L104"
    /\ \E h \in HttpOutcomes :
         LET r == pull_data_from_api(h) IN
         /\ calls' = Append(calls, Call("pull_data_from_api", 104, StrVal, 2,
                                        r.ret, h.status, r.ok, ""))
         /\ data' = r.ret
         /\ log' = log \o r.log
    /\ pc' = "L106"
    /\ UNCHANGED <<entry, df, file, fsWrites, conns, outcome>>

\* Lines 106-109 and 126-128: save again (result discarded), or give up.
MainL106 ==
    /\ pc = "L106"
    /\ IF Truthy(data)
         THEN \E fs \in FsOutcomes :
                LET s == save_data_to_csv(data, file, fs) IN
                /\ calls' = Append(calls, Call("save_data_to_csv", 109, data, 2,
                                               s.ret, 0, s.ok, ""))
                /\ file' = s.file
                /\ fsWrites' = fsWrites + s.wrote
                /\ log' = log \o s.log
                /\ pc' = "L111"
                /\ UNCHANGED outcome
         ELSE /\ log' = Append(log, "ERROR no data to save")
              /\ pc' = "done"
              /\ outcome' = "Failed"
              /\ UNCHANGED <<calls, file, fsWrites>>
    /\ UNCHANGED <<entry, data, df, conns>>

\* Lines 111-117: read GCS_BUCKET_NAME; return when it is not set, else
\* call upload_to_snowflake(bucket_name, file_path, destination_blob_name).
MainL111 ==
    /\ pc = "L111"
    /\ \E b \in BucketEnv, d \in DriverOutcomes :
         IF b # "name"
           THEN /\ log' = Append(log, "ERROR bucket not set")
                /\ pc' = "done"
                /\ outcome' = "Failed"
                /\ UNCHANGED <<calls, conns>>
           ELSE LET u == upload_to_snowflake(d) IN
                IF Binds(3)
                  THEN /\ calls' = Append(calls, Call("upload_to_snowflake", 117,
                                             StrVal, 3, NoneVal, 0, u.ok, ""))
                       /\ conns' = [opened |-> conns.opened + u.opened,
                                    closeCalls |-> conns.closeCalls + u.closeCalls]
                       /\ log' = log \o u.log
                       /\ pc' = "done"
                       /\ outcome' = "Done"
                  ELSE /\ calls' = Append(calls, Call("upload_to_snowflake", 117,
                                             StrVal, 3, NoneVal, 0, FALSE, "TypeError"))
                       /\ pc' = "done"
                       /\ outcome' = "Raised"
                       /\ UNCHANGED <<conns, log>>
    /\ UNCHANGED <<entry, data, df, file, fsWrites>>

Next ==
    \/ CallPull
    \/ CallSave
    \/ CallUpload
    \/ MainStart
    \/ MainL86
    \/ MainL88
    \/ MainL104
    \/ MainL106
    \/ MainL111

Spec == Init /\ [][Next]_vars

(***************************************************************************)
(* Properties                                                              *)
(***************************************************************************)
\* C1: in a run of main, every call of upload_to_snowflake comes after a
\* call of save_data_to_csv that returned a dataset of at least one row, and
\* is passed that dataset.
C1_LoaderOnlyAfterWrittenDataset ==
    entry = "main" =>
      \A i \in DOMAIN calls :
        calls[i].fn = "upload_to_snowflake" =>
          \E j \in 1..(i - 1) :
            /\ calls[j].fn = "save_data_to_csv"
            /\ calls[j].ret.kind = "dataframe"
            /\ calls[j].ret.n >= 1
            /\ calls[i].arg = calls[j].ret

\* C2: when a call has returned, every connection it opened has been closed
\* exactly once: the number of conn.close() calls equals the number of
\* connections opened.
C2_ConnectionClosedExactlyOnce ==
    pc = "done" => conns.closeCalls = conns.opened

\* C3: pull_data_from_api never raises, returns None with an error logged
\* for every response whose status is not 2xx, and returns a payload only for
\* a 2xx response.
C3_FetchNoneUnless2xx ==
    \A i \in DOMAIN calls :
      calls[i].fn = "pull_data_from_api" =>
        /\ calls[i].raised = ""
        /\ calls[i].status \notin 200..299 =>
             calls[i].ret = NoneVal /\ ~calls[i].ok
        /\ calls[i].ret # NoneVal => calls[i].status \in 200..299

\* C4: save_data_to_csv called with None returns the failure value and does
\* not create or overwrite the file.
C4_WriteOfNoneLeavesFile ==
    (entry = "save_data_to_csv" /\ pc = "done" /\ calls[1].arg = NoneVal) =>
      calls[1].ret = NoneVal /\ fsWrites = 0

\* C5: in a run of main whose first request fails, nothing else is called:
\* no save, no file mutation, no connection; the run ends Failed with the
\* error logged.
C5_FailedFetchEndsRun ==
    (entry = "main" /\ Len(calls) >= 1 /\ ~calls[1].ok) =>
      /\ Len(calls) = 1
      /\ fsWrites = 0
      /\ conns.opened = 0
      /\ pc \in {"L88", "done"}
      /\ pc = "done" =>
           outcome = "Failed" /\ log[Len(log)] = "ERROR no data to process"

\* C5 witness: a run of main ended after the API answered HTTP 500.
C5_Witness ==
    /\ entry = "main"
    /\ pc = "done"
    /\ Len(calls) = 1
    /\ calls[1].status = 500
    /\ outcome = "Failed"

\* C6: a run of main whose fetch gave at least one record and whose first
\* save failed ends Failed without upload_to_snowflake being called.
C6_FailedWriteNeverLoads ==
    (/\ entry = "main"
     /\ pc = "done"
     /\ Len(calls) >= 2
     /\ calls[1].ret.kind = "records"
     /\ calls[1].ret.n >= 1
     /\ ~calls[2].ok) =>
      /\ outcome = "Failed"
      /\ \A i \in DOMAIN calls : calls[i].fn # "upload_to_snowflake"

\* C7: a finished run of main in which every fetch returned at least one
\* record and no stage failed is fetch, save, upload, in that order and once
\* each, ends Done, and passed upload the dataset save returned, which has as
\* many rows as records were fetched.
C7_HappyPathLoadsOnce ==
    (/\ entry = "main"
     /\ pc = "done"
     /\ \A i \in DOMAIN calls :
          /\ calls[i].ok
          /\ calls[i].fn = "pull_data_from_api" =>
               calls[i].ret.kind = "records" /\ calls[i].ret.n >= 1) =>
      /\ outcome = "Done"
      /\ Len(calls) = 3
      /\ calls[1].fn = "pull_data_from_api"
      /\ calls[2].fn = "save_data_to_csv"
      /\ calls[3].fn = "upload_to_snowflake"
      /\ calls[3].arg = calls[2].ret
      /\ calls[3].arg = DataFrameOf(calls[1].ret.n)

\* C8: every run of main ends by a normal return, in Done or Failed; no
\* exception leaves a component or main.
C8_NoExceptionEscapes ==
    (entry = "main" /\ pc = "done") =>
      /\ outcome \in {"Done", "Failed"}
      /\ \A i \in DOMAIN calls : calls[i].raised = ""

\* C9: a run of main calls pull_data_from_api at most once and
\* save_data_to_csv at most once.
C9_EachStageAtMostOnce ==
    entry = "main" =>
      /\ Cardinality({i \in DOMAIN calls : calls[i].fn = "pull_data_from_api"}) <= 1
      /\ Cardinality({i \in DOMAIN calls : calls[i].fn = "save_data_to_csv"}) <= 1

\* C10: in a run of main, a fetch that succeeds with an empty array or an
\* empty object is the last call of the run: main logs an error and returns
\* Failed, and neither save_data_to_csv nor upload_to_snowflake is called for
\* it; save_data_to_csv is never passed an empty payload, and a run whose
\* first fetch is empty mutates no file.
C10_EmptyPayloadIsNoData ==
    entry = "main" =>
      /\ \A i \in DOMAIN calls :
           (/\ calls[i].fn = "pull_data_from_api"
            /\ calls[i].ok
            /\ calls[i].ret \in {Records(0), Object(0)}) =>
             /\ i = Len(calls)
             /\ pc \in {"L88", "L106", "done"}
             /\ i = 1 => fsWrites = 0 /\ conns.opened = 0
             /\ pc = "done" =>
                  /\ outcome = "Failed"
                  /\ log[Len(log)] \in {"ERROR no data to process",
                                        "ERROR no data to save"}
      /\ \A i \in DOMAIN calls :
           calls[i].fn = "save_data_to_csv" =>
             calls[i].arg \notin {Records(0), Object(0)}

\* C10 witness: a run of main ended after the API answered 200 with {}.
C10_Witness ==
    /\ entry = "main"
    /\ pc = "done"
    /\ Len(calls) = 1
    /\ calls[1].status = 200
    /\ calls[1].ret = Object(0)
    /\ file = Absent
    /\ outcome = "Failed"
====
